---- MODULE Spec2Model ----
(***************************************************************************)
(* Model of src/vision_analysis.py: the three Gemini adapter operations    *)
(* analyze_images_with_gpt4_vision, detect_important_pages and             *)
(* get_important_panels.  One call is followed from its entry to its       *)
(* return or raise.  Response texts are sequences of JSON lexemes; the     *)
(* strict parse (json.loads) and the fallback (re.search of \{.*\} with    *)
(* DOTALL) are computed on them.                                           *)
(***************************************************************************)
EXTENDS Integers, Sequences, FiniteSets

VARIABLES op, env, instructions, prompt, profile_reference, chapter_reference,
          pages, pc, contents, netCalls, response_text, clientExc, log,
          result, exc

vars == <<op, env, instructions, prompt, profile_reference, chapter_reference,
          pages, pc, contents, netCalls, response_text, clientExc, log,
          result, exc>>

(* ---------------------------- bounds ----------------------------------- *)

\* total number of encoded images a caller passes in one call
MaxImgs == 3

\* total number of noise lexemes around the core of a response text
MaxNoise == 2

(* ---------------------------- inputs ----------------------------------- *)

Ops == {"analyze_images_with_gpt4_vision", "detect_important_pages",
        "get_important_panels"}

\* process environments: credential unset, set to the empty string, set
Envs == {<<>>, [GOOGLE_API_KEY |-> ""], [GOOGLE_API_KEY |-> "secret"]}

\* base64 strings; "bad" is one that base64/PIL cannot decode
EncodedImages == {"i1", "i2", "bad"}

Prompts == {"describe", "list"}

InstructionTexts == {"be brief"}

SeqsUpTo(S, n) == UNION {[1..k -> S] : k \in 0..n}

\* exceptions the model client can raise (generate_content or response.text)
ClientErrors == {"ServiceUnavailable", "BlockedPrompt"}

(* ------------------------ JSON lexemes and values ---------------------- *)

\* string literals, written without their quotes
StrTok == {"important_pages", "important_panels", "a", "p1", "p2"}

NumTok == {"5"}

\* lexemes that may surround the core of a response: a bare word and braces
NoiseTok == {"x", "{", "}"}

JNull == [k |-> "null", s |-> "", items |-> <<>>]

JStr(s) == [k |-> "str", s |-> s, items |-> <<>>]

JNum(s) == [k |-> "num", s |-> s, items |-> <<>>]

JArr(items) == [k |-> "arr", s |-> "", items |-> items]

\* a dict: items alternates key (a JStr) and value, in document order
JObj(items) == [k |-> "obj", s |-> "", items |-> items]

ParseFail == [ok |-> FALSE, val |-> JNull, next |-> 0]

ParseOk(v, n) == [ok |-> TRUE, val |-> v, next |-> n]

RECURSIVE ParseValue(_, _), ParseElements(_, _, _), ParseMembers(_, _, _)

\* one JSON value starting at lexeme i of t
ParseValue(t, i) ==
    IF i > Len(t) THEN ParseFail
    ELSE IF t[i] \in StrTok THEN ParseOk(JStr(t[i]), i + 1)
    ELSE IF t[i] \in NumTok THEN ParseOk(JNum(t[i]), i + 1)
    ELSE IF t[i] = "null" THEN ParseOk(JNull, i + 1)
    ELSE IF t[i] = "["
         THEN IF i + 1 <= Len(t) /\ t[i + 1] = "]"
              THEN ParseOk(JArr(<<>>), i + 2)
              ELSE ParseElements(t, i + 1, <<>>)
    ELSE IF t[i] = "{"
         THEN IF i + 1 <= Len(t) /\ t[i + 1] = "}"
              THEN ParseOk(JObj(<<>>), i + 2)
              ELSE ParseMembers(t, i + 1, <<>>)
    ELSE ParseFail

\* value ("," value)* "]"
ParseElements(t, i, acc) ==
    LET r == ParseValue(t, i) IN
    IF ~r.ok \/ r.next > Len(t) THEN ParseFail
    ELSE IF t[r.next] = "," THEN ParseElements(t, r.next + 1, Append(acc, r.val))
    ELSE IF t[r.next] = "]" THEN ParseOk(JArr(Append(acc, r.val)), r.next + 1)
    ELSE ParseFail

\* string ":" value ("," string ":" value)* "}"
ParseMembers(t, i, acc) ==
    IF i + 1 > Len(t) \/ t[i] \notin StrTok \/ t[i + 1] # ":" THEN ParseFail
    ELSE LET r == ParseValue(t, i + 2) IN
         IF ~r.ok \/ r.next > Len(t) THEN ParseFail
         ELSE IF t[r.next] = ","
              THEN ParseMembers(t, r.next + 1, acc \o <<JStr(t[i]), r.val>>)
         ELSE IF t[r.next] = "}"
              THEN ParseOk(JObj(acc \o <<JStr(t[i]), r.val>>), r.next + 1)
         ELSE ParseFail

\* json.loads: the whole text is exactly one value, else JSONDecodeError
JsonLoads(t) ==
    LET r == ParseValue(t, 1) IN
    IF r.ok /\ r.next = Len(t) + 1 THEN [ok |-> TRUE, val |-> r.val]
    ELSE [ok |-> FALSE, val |-> JNull]

\* the non-greedy pattern \{.*?\}: leftmost "{" to the first "}" after it
RegexSearchLazy(t) ==
    LET opens == {i \in 1..Len(t) : t[i] = "{"}
    IN IF opens = {} THEN [found |-> FALSE, group |-> <<>>]
       ELSE LET first == CHOOSE i \in opens : \A j \in opens : i <= j
                closes == {i \in first + 1..Len(t) : t[i] = "}"}
            IN IF closes = {} THEN [found |-> FALSE, group |-> <<>>]
               ELSE [found |-> TRUE,
                     group |-> SubSeq(t, first,
                                  CHOOSE i \in closes : \A j \in closes : i <= j)]

\* re.search(r'\{.*\}', text, re.DOTALL): leftmost "{", greedy to the last "}"
RegexSearch(t) ==
    LET opens == {i \in 1..Len(t) : t[i] = "{"}
        closes == {i \in 1..Len(t) : t[i] = "}"}
    IN IF opens = {} \/ closes = {} THEN [found |-> FALSE, group |-> <<>>]
       ELSE LET first == CHOOSE i \in opens : \A j \in opens : i <= j
                last == CHOOSE i \in closes : \A j \in closes : j <= i
            IN IF first < last
               THEN [found |-> TRUE, group |-> SubSeq(t, first, last)]
               ELSE [found |-> FALSE, group |-> <<>>]

\* dict.get(key, default) on a parsed object; a repeated key keeps its last value
DictGet(obj, key, default) ==
    LET n == Len(obj.items) \div 2
        hits == {i \in 1..n : obj.items[2 * i - 1] = JStr(key)}
    IN IF hits = {} THEN default
       ELSE obj.items[2 * (CHOOSE i \in hits : \A j \in hits : j <= i)]

(* ---------------------------- response texts --------------------------- *)

PagesExample == <<"{", "important_pages", ":", "[", "p1", ",", "p2", "]", "}">>

PanelsExample == <<"{", "important_panels", ":", "[", "a", "]", "}">>

\* the middles of the response texts the model client may return
Cores ==
    { <<>>,
      <<"{", "}">>,
      PagesExample,
      PanelsExample,
      <<"{", "important_pages", ":", "5", "}">>,
      <<"{", "important_panels", ":", "null", "}">>,
      <<"{", "important_panels", ":", "{", "}", "}">>,
      <<"{", "a", ":", "[", "]", ",", "important_pages", ":", "[", "a", "]", "}">>,
      <<"{", "important_panels", ":", "[", "]", ",",
             "important_panels", ":", "[", "p1", "]", "}">>,
      <<"[", "a", "]">>,
      <<"5">>,
      <<"{", "x", "}">>,
      <<"{", "important_pages", ":", "[", "a", "}">> }

NoisePairs ==
    {ps \in SeqsUpTo(NoiseTok, MaxNoise) \X SeqsUpTo(NoiseTok, MaxNoise) :
        Len(ps[1]) + Len(ps[2]) <= MaxNoise}

Texts == {ps[1] \o c \o ps[2] : ps \in NoisePairs, c \in Cores}

(* --------------------------- the operations ---------------------------- *)

NoResult == [none |-> TRUE]

NoExc == [type |-> "", doc |-> <<>>]

Returned(r, l) == [status |-> "returned", result |-> r, exc |-> NoExc, log |-> l]

Raised(type, doc, l) ==
    [status |-> "raised", result |-> NoResult,
     exc |-> [type |-> type, doc |-> doc], log |-> l]

\* a check `if api_key is None`, which lets the empty string through
CredentialMissingNoneOnly(e) == "GOOGLE_API_KEY" \notin DOMAIN e

\* get_gemini_model: `if not api_key` is true for None and for ""
CredentialMissing(e) ==
    \/ "GOOGLE_API_KEY" \notin DOMAIN e
    \/ e["GOOGLE_API_KEY"] = ""

\* base64_to_pil: decodes, or raises on an undecodable string
Base64ToPil(img) ==
    IF img = "bad" THEN [ok |-> FALSE, part |-> [kind |-> "image", text |-> <<>>]]
    ELSE [ok |-> TRUE, part |-> [kind |-> "image", text |-> <<"PIL", img>>]]

TextPart(pieces) == [kind |-> "text", text |-> pieces]

DecodeAll(imgs) == [i \in 1..Len(imgs) |-> Base64ToPil(imgs[i]).part]

AllDecodable(imgs) == \A i \in 1..Len(imgs) : Base64ToPil(imgs[i]).ok

InstructionsPart(instr) == TextPart(<<"System Instructions: ", instr, "\n\n">>)

PromptPart(prm) == TextPart(<<"\nPrompt: ", prm, "\n">>)

ProfileHeader ==
    TextPart(<<"Here are some character profile pages, for your reference:">>)

ChapterHeader ==
    TextPart(<<"\nHere are some chapter start pages, for your reference:">>)

\* the subject images appended before the prompt text
ContentsSubjectsBeforePrompt(o, instr, prm, prof, chap, subj) ==
    IF o = "detect_important_pages"
    THEN <<InstructionsPart(instr), ProfileHeader>> \o DecodeAll(prof)
         \o <<ChapterHeader>> \o DecodeAll(chap)
         \o DecodeAll(subj) \o <<PromptPart(prm)>>
    ELSE <<InstructionsPart(instr), ProfileHeader>> \o DecodeAll(prof)
         \o DecodeAll(subj) \o <<PromptPart(prm)>>

\* the contents list each operation hands to generate_content
Contents(o, instr, prm, prof, chap, subj) ==
    IF o = "detect_important_pages"
    THEN <<InstructionsPart(instr), ProfileHeader>> \o DecodeAll(prof)
         \o <<ChapterHeader>> \o DecodeAll(chap)
         \o <<PromptPart(prm)>> \o DecodeAll(subj)
    ELSE <<InstructionsPart(instr), ProfileHeader>> \o DecodeAll(prof)
         \o <<PromptPart(prm)>> \o DecodeAll(subj)

\* MockResponse(content, tokens) with its nested MockChoice/MockMessage/MockUsage
MockResponse(content, tokens) ==
    [choices |-> <<[message |-> [content |-> content]]>>,
     usage |-> [total_tokens |-> tokens]]

\* a usage count taken from the response instead of the fixed 0
AnalyzeTailCountsTokens(text) == Returned(MockResponse(text, Len(text)), <<>>)

\* analyze_images_with_gpt4_vision after generate_content returned
AnalyzeTail(text) == Returned(MockResponse(text, 0), <<>>)

EmptyResult == [total_tokens |-> 0, parsed_response |-> JArr(<<>>)]

\* parsed.get(key) without the [] default
ExtractFieldNoDefault(parsed, key, l) ==
    IF parsed.k # "obj" THEN Raised("AttributeError", <<>>, l)
    ELSE Returned([total_tokens |-> 0,
                   parsed_response |-> DictGet(parsed, key, JNull)], l)

\* the closing return of both JSON-mode operations: parsed.get(key, [])
ExtractField(parsed, key, l) ==
    IF parsed.k # "obj" THEN Raised("AttributeError", <<>>, l)
    ELSE Returned([total_tokens |-> 0,
                   parsed_response |-> DictGet(parsed, key, JArr(<<>>))], l)

\* detect_important_pages reading the key of get_important_panels
DetectTailPanelsKey(text) ==
    LET strict == JsonLoads(text) IN
    IF strict.ok THEN ExtractField(strict.val, "important_panels", <<>>)
    ELSE LET json_match == RegexSearch(text) IN
         IF json_match.found
         THEN LET second == JsonLoads(json_match.group) IN
              IF second.ok
              THEN ExtractField(second.val, "important_panels", <<>>)
              ELSE Raised("JSONDecodeError", json_match.group, <<>>)
         ELSE Raised("JSONDecodeError", text,
                     <<"Failed to parse JSON from Gemini response.">>)

\* detect_important_pages after generate_content returned
DetectImportantPagesTail(text) ==
    LET strict == JsonLoads(text) IN
    IF strict.ok THEN ExtractField(strict.val, "important_pages", <<>>)
    ELSE LET json_match == RegexSearch(text) IN
         IF json_match.found
         THEN LET second == JsonLoads(json_match.group) IN
              IF second.ok
              THEN ExtractField(second.val, "important_pages", <<>>)
              ELSE Raised("JSONDecodeError", json_match.group, <<>>)
         ELSE Raised("JSONDecodeError", text,
                     <<"Failed to parse JSON from Gemini response.">>)

\* get_important_panels after generate_content returned
GetImportantPanelsTail(text) ==
    LET strict == JsonLoads(text) IN
    IF strict.ok THEN ExtractField(strict.val, "important_panels", <<>>)
    ELSE LET json_match == RegexSearch(text) IN
         IF json_match.found
         THEN LET second == JsonLoads(json_match.group) IN
              IF second.ok
              THEN ExtractField(second.val, "important_panels", <<>>)
              ELSE Raised("JSONDecodeError", json_match.group, <<>>)
         ELSE ExtractField(JObj(<<JStr("important_panels"), JArr(<<>>)>>),
                           "important_panels", <<>>)

\* get_important_panels without its try/except around the call
RemoteFailureAllPropagate(o, e) == Raised(e, <<>>, <<>>)

\* get_important_panels swallowing the error without the print
RemoteFailureSilent(o, e) ==
    IF o = "get_important_panels"
    THEN Returned(EmptyResult, <<>>)
    ELSE Raised(e, <<>>, <<>>)

\* what each operation does when generate_content (or response.text) raises e
RemoteFailure(o, e) ==
    IF o = "get_important_panels"
    THEN Returned(EmptyResult,
                  <<"Gemini Error during panel identification: " \o e>>)
    ELSE Raised(e, <<>>, <<>>)

(* ----------------------------- the calls ------------------------------- *)

Init ==
    /\ op \in Ops
    /\ env \in Envs
    /\ instructions \in InstructionTexts
    /\ prompt \in Prompts
    /\ profile_reference \in SeqsUpTo(EncodedImages, MaxImgs)
    /\ chapter_reference \in SeqsUpTo(EncodedImages, MaxImgs)
    /\ pages \in SeqsUpTo(EncodedImages, MaxImgs)
    /\ op # "detect_important_pages" => chapter_reference = <<>>
    /\ Len(profile_reference) + Len(chapter_reference) + Len(pages) <= MaxImgs
    /\ pc = "start"
    /\ contents = <<>>
    /\ netCalls = 0
    /\ response_text = <<>>
    /\ clientExc = ""
    /\ log = <<>>
    /\ result = NoResult
    /\ exc = NoExc

Finish(outcome) ==
    /\ pc' = outcome.status
    /\ result' = outcome.result
    /\ exc' = outcome.exc
    /\ log' = log \o outcome.log

\* model = get_gemini_model(), the first statement of every operation
GetGeminiModel ==
    /\ pc = "start"
    /\ IF CredentialMissing(env)
       THEN Finish(Raised("ValueError", <<>>, <<>>))
       ELSE /\ pc' = "build"
            /\ UNCHANGED <<result, exc, log>>
    /\ UNCHANGED <<op, env, instructions, prompt, profile_reference,
                   chapter_reference, pages, contents, netCalls,
                   response_text, clientExc>>

\* contents = [...]; contents.extend(...); base64_to_pil raises on a bad image
BuildContents ==
    /\ pc = "build"
    /\ IF AllDecodable(profile_reference \o chapter_reference \o pages)
       THEN /\ contents' = Contents(op, instructions, prompt, profile_reference,
                                    chapter_reference, pages)
            /\ pc' = "invoke"
            /\ UNCHANGED <<result, exc, log>>
       ELSE /\ Finish(Raised("DecodeError", <<>>, <<>>))
            /\ UNCHANGED contents
    /\ UNCHANGED <<op, env, instructions, prompt, profile_reference,
                   chapter_reference, pages, netCalls, response_text, clientExc>>

\* model.generate_content(contents) raises
GenerateContentRaises ==
    /\ pc = "invoke"
    /\ netCalls' = netCalls + 1
    /\ \E e \in ClientErrors :
          /\ clientExc' = e
          /\ Finish(RemoteFailure(op, e))
    /\ UNCHANGED <<op, env, instructions, prompt, profile_reference,
                   chapter_reference, pages, contents, response_text>>

\* model.generate_content(contents) returns a response with text t
GenerateContentReturns ==
    /\ pc = "invoke"
    /\ netCalls' = netCalls + 1
    /\ \E t \in Texts : response_text' = t
    /\ pc' = "respond"
    /\ UNCHANGED <<op, env, instructions, prompt, profile_reference,
                   chapter_reference, pages, contents, clientExc, log,
                   result, exc>>

\* return MockResponse(response.text, 0)
AnalyzeReturn ==
    /\ pc = "respond"
    /\ op = "analyze_images_with_gpt4_vision"
    /\ Finish(AnalyzeTail(response_text))
    /\ UNCHANGED <<op, env, instructions, prompt, profile_reference,
                   chapter_reference, pages, contents, netCalls,
                   response_text, clientExc>>

\* the parse, fallback and return of detect_important_pages
DetectParse ==
    /\ pc = "respond"
    /\ op = "detect_important_pages"
    /\ Finish(DetectImportantPagesTail(response_text))
    /\ UNCHANGED <<op, env, instructions, prompt, profile_reference,
                   chapter_reference, pages, contents, netCalls,
                   response_text, clientExc>>

\* the parse, fallback and return of get_important_panels
PanelsParse ==
    /\ pc = "respond"
    /\ op = "get_important_panels"
    /\ Finish(GetImportantPanelsTail(response_text))
    /\ UNCHANGED <<op, env, instructions, prompt, profile_reference,
                   chapter_reference, pages, contents, netCalls,
                   response_text, clientExc>>

Next ==
    \/ GetGeminiModel
    \/ BuildContents
    \/ GenerateContentRaises
    \/ GenerateContentReturns
    \/ AnalyzeReturn
    \/ DetectParse
    \/ PanelsParse

Spec == Init /\ [][Next]_vars

TypeOK ==
    /\ pc \in {"start", "build", "invoke", "respond", "returned", "raised"}
    /\ netCalls \in 0..1

(* ------------------------- vocabulary of the claims -------------------- *)

JsonOps == {"detect_important_pages", "get_important_panels"}

FieldOf(o) ==
    IF o = "detect_important_pages" THEN "important_pages" ELSE "important_panels"

Terminal == pc \in {"returned", "raised"}

\* generate_content returned and response.text was read
TextReceived == netCalls = 1 /\ clientExc = ""

KeyAbsentOrEmpty ==
    env = <<>> \/ env = [GOOGLE_API_KEY |-> ""]

InputImages == profile_reference \o chapter_reference \o pages

StrictFails(t) == ~JsonLoads(t).ok

ParsesAsObject(t) == JsonLoads(t).ok /\ JsonLoads(t).val.k = "obj"

\* v is what the field key of the object obj holds: its last member of that
\* name, or the empty sequence when no member has that name
IsFieldValue(obj, key, v) ==
    LET n == Len(obj.items) \div 2
        named == {i \in 1..n : obj.items[2 * i - 1].s = key}
    IN IF named = {} THEN v = JArr(<<>>)
       ELSE \E i \in named : /\ \A j \in named : j <= i
                             /\ v = obj.items[2 * i]

\* no part of the text parses as a JSON object
Unrecoverable(t) ==
    /\ StrictFails(t)
    /\ \A i \in 1..Len(t) : \A j \in i..Len(t) : ~ParsesAsObject(SubSeq(t, i, j))

\* the text is lead \o (a JSON object) \o trail at positions i..j
Embedded(t, i, j) == i <= j /\ ParsesAsObject(SubSeq(t, i, j))

OnlyNoise(t) == \A i \in 1..Len(t) : t[i] \in NoiseTok

Lacks(t, tok) == \A i \in 1..Len(t) : t[i] # tok

(* -------------------------------- C1 ----------------------------------- *)

\* C1: once get_important_panels has a response text that fails the strict
\* parse, the call never ends by raising: it returns a result.
C1_PanelsNeverRaiseOnText ==
    (/\ op = "get_important_panels"
     /\ TextReceived
     /\ Terminal
     /\ StrictFails(response_text))
    => pc = "returned"

(* -------------------------------- C2 ----------------------------------- *)

\* C2: when the model client raises, get_important_panels returns exactly
\* {"total_tokens": 0, "parsed_response": []}; the other two operations end
\* by raising that same exception and return nothing.
C2_RemoteFailurePolicy ==
    clientExc # "" =>
        IF op = "get_important_panels"
        THEN /\ pc = "returned"
             /\ result = [total_tokens |-> 0, parsed_response |-> JArr(<<>>)]
        ELSE /\ pc = "raised"
             /\ exc = [type |-> clientExc, doc |-> <<>>]
             /\ result = NoResult

C2_Witness ==
    /\ op = "get_important_panels"
    /\ env = [GOOGLE_API_KEY |-> "secret"]
    /\ Len(pages) > 0
    /\ clientExc = "ServiceUnavailable"
    /\ pc = "returned"

(* -------------------------------- C3 ----------------------------------- *)

\* C3: with the credential absent or empty, every operation ends with the
\* configuration error (ValueError), nothing else happens in the call, and
\* generate_content is never invoked, whatever the images are.
C3_MissingCredential ==
    KeyAbsentOrEmpty =>
        /\ netCalls = 0
        /\ pc \in {"start", "raised"}
        /\ contents = <<>>
        /\ log = <<>>
        /\ pc = "raised" => exc.type = "ValueError" /\ result = NoResult

C3_Witness ==
    /\ op = "get_important_panels"
    /\ env = [GOOGLE_API_KEY |-> ""]
    /\ \E i \in 1..Len(InputImages) : InputImages[i] = "bad"
    /\ pc = "raised"
    /\ exc.type = "ValueError"

(* -------------------------------- C4 ----------------------------------- *)

\* C4: when the strict parse fails and the fallback yields no parsed object
\* (no brace-delimited substring, or the substring does not parse),
\* detect_important_pages logs a diagnostic and raises the parse error.
C4_DetectLogsThenRaises ==
    (/\ op = "detect_important_pages"
     /\ TextReceived
     /\ Terminal
     /\ StrictFails(response_text)
     /\ \/ ~RegexSearch(response_text).found
        \/ StrictFails(RegexSearch(response_text).group))
    => /\ pc = "raised"
       /\ exc.type = "JSONDecodeError"
       /\ log # <<>>

(* -------------------------------- C5 ----------------------------------- *)

\* C5 (as stated): whenever get_important_panels returns the empty result
\* because of a remote-call error or of an unrecoverable parse failure, a
\* log event was written before the return.
C5_EverySwallowedErrorLogged ==
    (/\ op = "get_important_panels"
     /\ pc = "returned"
     /\ \/ clientExc # ""
        \/ TextReceived /\ Unrecoverable(response_text))
    => log # <<>>

\* C5 (amended): a swallowed remote-call error is logged, once, naming the
\* error, before the empty result is returned; the parse stage of
\* get_important_panels writes no log event at all.
C5_RemoteErrorLogged ==
    op = "get_important_panels" =>
        /\ clientExc # "" =>
              /\ pc = "returned"
              /\ log = <<"Gemini Error during panel identification: " \o clientExc>>
        /\ clientExc = "" => log = <<>>

C5_Witness ==
    /\ op = "get_important_panels"
    /\ clientExc = "BlockedPrompt"
    /\ pc = "returned"
    /\ Len(log) = 1

(* -------------------------------- C6 ----------------------------------- *)

\* C6: analyze_images_with_gpt4_vision returns an object with exactly one
\* choice whose message.content is the model's text unchanged, and with
\* usage.total_tokens = 0.
C6_LegacyShape ==
    (op = "analyze_images_with_gpt4_vision" /\ pc = "returned") =>
        /\ DOMAIN result = {"choices", "usage"}
        /\ Len(result.choices) = 1
        /\ result.choices[1].message.content = response_text
        /\ result.usage.total_tokens = 0

C6_Witness ==
    /\ op = "analyze_images_with_gpt4_vision"
    /\ pc = "returned"
    /\ Len(response_text) > 1

(* -------------------------------- C7 ----------------------------------- *)

\* C7 (as stated): every result the two JSON-mode operations return has
\* exactly the keys total_tokens and parsed_response, total_tokens = 0 and
\* parsed_response a sequence.
C7_ResultAlwaysSequence ==
    (op \in JsonOps /\ pc = "returned") =>
        /\ DOMAIN result = {"total_tokens", "parsed_response"}
        /\ result.total_tokens = 0
        /\ result.parsed_response.k = "arr"

\* the response text gives the field named key a value that is not an array
FieldGivenNonArray(t, key) ==
    \E i \in 1..Len(t) - 2 : t[i] = key /\ t[i + 1] = ":" /\ t[i + 2] # "["

\* C7 (amended): every such result has exactly the two keys and
\* total_tokens = 0, and parsed_response is a sequence unless the response
\* gives the operation's field a non-array value, which is returned as it is.
C7_ResultShape ==
    (op \in JsonOps /\ pc = "returned") =>
        /\ DOMAIN result = {"total_tokens", "parsed_response"}
        /\ result.total_tokens = 0
        /\ \/ result.parsed_response.k = "arr"
           \/ TextReceived /\ FieldGivenNonArray(response_text, FieldOf(op))

C7_Witness ==
    /\ op = "detect_important_pages"
    /\ pc = "returned"
    /\ result.parsed_response = JNum("5")

(* -------------------------------- C8 ----------------------------------- *)

\* C8 (as stated): for every response text that strictly parses as JSON,
\* both JSON-mode operations return normally.
C8_StrictJsonReturns ==
    (/\ op \in JsonOps
     /\ TextReceived
     /\ Terminal
     /\ JsonLoads(response_text).ok)
    => pc = "returned"

\* C8 (amended): for every response text that strictly parses as a JSON
\* object, both operations return total_tokens 0 and, as parsed_response,
\* the value of their field in that object, or [] when it is absent; the
\* important_pages example yields ["p1","p2"] and {} yields [].
C8_StrictObjectReturnsField ==
    (/\ op \in JsonOps
     /\ TextReceived
     /\ Terminal
     /\ ParsesAsObject(response_text))
    => /\ pc = "returned"
       /\ result.total_tokens = 0
       /\ IsFieldValue(JsonLoads(response_text).val, FieldOf(op),
                       result.parsed_response)
       /\ (op = "detect_important_pages" /\ response_text = PagesExample)
             => result = [total_tokens |-> 0,
                          parsed_response |-> JArr(<<JStr("p1"), JStr("p2")>>)]
       /\ response_text = <<"{", "}">>
             => result = [total_tokens |-> 0, parsed_response |-> JArr(<<>>)]

C8_Witness ==
    /\ op = "detect_important_pages"
    /\ pc = "returned"
    /\ response_text = PagesExample

(* -------------------------------- C9 ----------------------------------- *)

\* C9 (as stated): whenever the text is not valid JSON but is noise, then a
\* valid JSON object, then trailing noise, the fallback recovers that object
\* and the operation returns its field as parsed_response.
C9_EmbeddedObjectRecovered ==
    (/\ op \in JsonOps
     /\ TextReceived
     /\ Terminal
     /\ StrictFails(response_text))
    => \A i \in 1..Len(response_text) : \A j \in 1..Len(response_text) :
          (/\ Embedded(response_text, i, j)
           /\ OnlyNoise(SubSeq(response_text, 1, i - 1))
           /\ OnlyNoise(SubSeq(response_text, j + 1, Len(response_text))))
          => /\ pc = "returned"
             /\ IsFieldValue(JsonLoads(SubSeq(response_text, i, j)).val,
                             FieldOf(op), result.parsed_response)

\* C9 (amended): the same, provided the leading text holds no "{" and the
\* trailing text holds no "}"; the example
\* noise {"important_panels": ["a"]} trailing yields ["a"].
C9_EmbeddedObjectRecoveredBetweenBraceFreeText ==
    (/\ op \in JsonOps
     /\ TextReceived
     /\ Terminal
     /\ StrictFails(response_text))
    => /\ \A i \in 1..Len(response_text) : \A j \in 1..Len(response_text) :
            (/\ Embedded(response_text, i, j)
             /\ Lacks(SubSeq(response_text, 1, i - 1), "{")
             /\ Lacks(SubSeq(response_text, j + 1, Len(response_text)), "}"))
            => /\ pc = "returned"
               /\ IsFieldValue(JsonLoads(SubSeq(response_text, i, j)).val,
                               FieldOf(op), result.parsed_response)
       /\ (/\ op = "get_important_panels"
           /\ response_text = <<"x">> \o PanelsExample \o <<"x">>)
          => result = [total_tokens |-> 0,
                       parsed_response |-> JArr(<<JStr("a")>>)]

C9_Witness ==
    /\ op = "get_important_panels"
    /\ pc = "returned"
    /\ response_text = <<"x">> \o PanelsExample \o <<"x">>

(* -------------------------------- C10 ---------------------------------- *)

ImagePart(img) == [kind |-> "image", text |-> <<"PIL", img>>]

IsInputPart(p) == p \notin {ProfileHeader, ChapterHeader}

\* C10: in the bundle handed to the model the instruction text is the first
\* part; leaving the two fixed reference headings aside, the parts are the
\* instruction text, the profile images, (detect_important_pages only) the
\* chapter-start images, the prompt text and the subject images, each list
\* in caller order; the subject images are the final parts, right after the
\* prompt text, and every input image appears once.
C10_BundleOrder ==
    contents # <<>> =>
        LET n == Len(contents)
            ns == Len(pages)
            refs == profile_reference \o chapter_reference
        IN /\ contents[1].kind = "text"
           /\ contents[1].text[2] = instructions
           /\ SelectSeq(contents, IsInputPart)
                = <<contents[1]>>
                  \o [i \in 1..Len(refs) |-> ImagePart(refs[i])]
                  \o <<contents[n - ns]>>
                  \o [i \in 1..ns |-> ImagePart(pages[i])]
           /\ contents[n - ns].kind = "text"
           /\ contents[n - ns].text[2] = prompt
           /\ \A i \in 1..ns : contents[n - ns + i] = ImagePart(pages[i])
           /\ Cardinality({i \in 1..n : contents[i].kind = "image"})
                = Len(InputImages)
           /\ op # "detect_important_pages" => chapter_reference = <<>>

C10_Witness ==
    /\ op = "detect_important_pages"
    /\ pc = "invoke"
    /\ profile_reference = <<"i2">>
    /\ chapter_reference = <<"i1">>
    /\ pages = <<"i2">>
    /\ Len(contents) = 7

====
